---- MODULE Spec2Model ----
(***************************************************************************)
(* Model of the OQMD download helpers (pourbaix/download_data/             *)
(* get_entries_utils.py) and of MPRester_x_OCP                             *)
(* .get_pourbaix_entries_w_add_entries (pourbaix/mprester_ocp.py).         *)
(*                                                                         *)
(* One behaviour is one call of one of the three functions: Init chooses   *)
(* the function, its arguments and what the remote databases hold, the     *)
(* actions are the steps of the function's body.                           *)
(***************************************************************************)
EXTENDS Integers, Sequences, FiniteSets, TLC

\* ------------------------------------------------------------------ bounds
MaxEntries == 5      \* entries the OQMD server holds for the filter
MaxPageLimit == 3    \* largest page_limit argument tried
MaxPages == 3        \* largest finite maximum_pages argument tried

\* np.inf, the default of maximum_pages; compared only through LeqPages
Inf == -1

VARIABLES
    fn,                \* the function called
    pc,                \* position in its body
    error,             \* the exception that ended the call, or "none"
    \* --- get_all_entries / get_icsd_entries
    maximum_pages,     \* argument
    page_limit,        \* argument
    oqmd,              \* the entries the OQMD server holds for the query, in order
    continue_bool,
    batch_num,
    cumulative_data,
    requests,          \* the kwargs of every get_oqmd_phases call, in order
    returned,          \* the returned list
    \* --- get_pourbaix_entries_w_add_entries
    solid_compat,      \* argument
    self_solid_compat, \* self.solid_compat
    chemsys,           \* argument, then the local list of element symbols
    additional_entries,\* argument
    mp_ion_data,       \* what /pourbaix_diagram/reference_data/ answers
    mp_entries,        \* the processed entries of the reference chemical system
    url,               \* the url requested, <<>> before the request
    ion_data,          \* local
    pbx_entries        \* local, the value a successful call returns

pageVars == <<maximum_pages, page_limit, oqmd, continue_bool, batch_num,
              cumulative_data, requests, returned>>
pbxVars == <<solid_compat, self_solid_compat, chemsys, additional_entries,
             mp_ion_data, mp_entries, url, ion_data, pbx_entries>>
vars == <<fn, pc, error, pageVars, pbxVars>>

\* =====================================================================
\* get_entries_utils.py
\* =====================================================================

\* batch_num <= maximum_pages, with maximum_pages possibly np.inf
LeqPages(b, m) == IF m = Inf THEN TRUE ELSE b <= m

\* The offset counts pages instead of entries.
OffsetInPages(b, limit) == b

\* "offset": batch_num * page_limit
Offset(b, limit) == b * limit

\* The kwargs of one query (without the constant filter string).
Kwargs(b, limit) == [limit |-> limit, offset |-> Offset(b, limit)]

Min(a, b) == IF a <= b THEN a ELSE b

\* The OQMD REST API: the page of `data` selected by limit and offset, and a
\* "next" link exactly when entries remain after the page.
ServerPage(data, kw) ==
    [data |-> SubSeq(data, kw.offset + 1, Min(Len(data), kw.offset + kw.limit)),
     next |-> kw.offset + kw.limit < Len(data)]

\* if data["links"]["next"] and batch_num <= maximum_pages
Continue(page, b, m) == page.next /\ LeqPages(b, m)

\* One pass of the while body of get_all_entries.
AllEntriesQuery ==
    /\ fn = "get_all_entries"
    /\ pc = "loop"
    /\ continue_bool
    /\ LET kw == Kwargs(batch_num, page_limit)
           data == ServerPage(oqmd, kw)
       IN /\ requests' = Append(requests, kw)
          /\ cumulative_data' = cumulative_data \o data.data
          /\ batch_num' = batch_num + 1
          /\ continue_bool' = Continue(data, batch_num + 1, maximum_pages)
    /\ UNCHANGED <<fn, pc, error, maximum_pages, page_limit, oqmd, returned, pbxVars>>

\* The while condition fails: return cumulative_data.
AllEntriesReturn ==
    /\ fn = "get_all_entries"
    /\ pc = "loop"
    /\ ~continue_bool
    /\ returned' = cumulative_data
    /\ pc' = "done"
    /\ UNCHANGED <<fn, error, maximum_pages, page_limit, oqmd, continue_bool,
                   batch_num, cumulative_data, requests, pbxVars>>

\* The body of get_icsd_entries: the with block is not inside a loop.
IcsdQuery ==
    /\ fn = "get_icsd_entries"
    /\ pc = "query"
    /\ LET kw == Kwargs(batch_num, page_limit)
           data == ServerPage(oqmd, kw)
       IN /\ requests' = Append(requests, kw)
          /\ cumulative_data' = cumulative_data \o data.data
          /\ batch_num' = batch_num + 1
          /\ continue_bool' = Continue(data, batch_num + 1, maximum_pages)
    /\ pc' = "return"
    /\ UNCHANGED <<fn, error, maximum_pages, page_limit, oqmd, returned, pbxVars>>

IcsdReturn ==
    /\ fn = "get_icsd_entries"
    /\ pc = "return"
    /\ returned' = cumulative_data
    /\ pc' = "done"
    /\ UNCHANGED <<fn, error, maximum_pages, page_limit, oqmd, continue_bool,
                   batch_num, cumulative_data, requests, pbxVars>>

\* =====================================================================
\* mprester_ocp.py
\* =====================================================================

\* The element symbols of the model; all are one character long, so a
\* chemical-system string is a sequence of these characters and "-".
Elements == {"H", "O", "K", "S"}

\* A composition maps every element to its amount (0 when absent).
Comp(h, o, k, s) == [H |-> h, O |-> o, K |-> k, S |-> s]

\* composition.elements
EltsOf(comp) == {e \in Elements : comp[e] > 0}

\* composition[elt]
Amount(comp, elt) == comp[elt]

RECURSIVE Gcd(_, _)
Gcd(a, b) == IF b = 0 THEN a ELSE Gcd(b, a % b)

RECURSIVE GcdOf(_)
GcdOf(S) == IF S = {} THEN 0
            ELSE LET x == CHOOSE y \in S : TRUE IN Gcd(x, GcdOf(S \ {x}))

\* composition.get_reduced_composition_and_factor()[1]: the greatest common
\* divisor of the amounts (the compositions of the model are compounds, for
\* which pymatgen applies no diatomic-gas exception).
ReductionFactor(comp) == GcdOf({comp[e] : e \in EltsOf(comp)})

\* composition.reduced_formula, as the reduced composition it spells.
ReducedFormula(comp) ==
    LET f == ReductionFactor(comp)
    IN [e \in Elements |-> IF f = 0 THEN 0 ELSE comp[e] \div f]

\* chemsys.split("-") on a string held as a sequence of characters: the
\* sequence of the maximal runs between separators.
RECURSIVE SplitFrom(_, _, _)
SplitFrom(s, i, cur) ==
    IF i > Len(s) THEN <<cur>>
    ELSE IF s[i] = "-" THEN <<cur>> \o SplitFrom(s, i + 1, <<>>)
    ELSE SplitFrom(s, i + 1, Append(cur, s[i]))

Split(s) == SplitFrom(s, 1, <<>>)

\* "-".join(chemsys)
RECURSIVE Join(_)
Join(parts) ==
    IF parts = <<>> THEN <<>>
    ELSE IF Len(parts) = 1 THEN parts[1]
    ELSE parts[1] \o <<"-">> \o Join(Tail(parts))

\* The solid_compat arguments tried: the two accepted strings, another
\* string, a Compatibility subclass, a Compatibility instance and None.
CompatArgs == {"'MaterialsProjectCompatibility'", "'MaterialsProject2020Compatibility'",
               "'other'", "class MaterialsProject2020Compatibility",
               "instance of Compatibility", "None"}

\* isinstance(solid_compat, Compatibility)
IsCompatInstance(c) == c = "instance of Compatibility"

\* The if / elif chain choosing self.solid_compat; "ValueError" for the else.
ChooseSolidCompat(c) ==
    IF c = "'MaterialsProjectCompatibility'" THEN "MaterialsProjectCompatibility()"
    ELSE IF c = "'MaterialsProject2020Compatibility'" THEN "MaterialsProject2020Compatibility()"
    ELSE IF IsCompatInstance(c) THEN c
    ELSE "ValueError"

\* The names the module binds at import time (its import statements) and the
\* names the function body looks up as globals.
ModuleGlobals == {"MPRester", "Composition", "PhaseDiagram", "IonEntry",
                  "PourbaixEntry", "Ion", "Compatibility",
                  "MaterialsProject2020Compatibility",
                  "MaterialsProjectAqueousCompatibility",
                  "MaterialsProjectCompatibility"}

\* A global lookup raises NameError when the module never bound the name.
Bound(name) == name \in ModuleGlobals

\* Lines 39-54: choose self.solid_compat or raise, pbx_entries = [], and
\* split a chemsys given as a string.
PbxValidate ==
    /\ fn = "get_pourbaix_entries_w_add_entries"
    /\ pc = "validate"
    /\ LET c == ChooseSolidCompat(solid_compat)
       IN IF c = "ValueError"
          THEN /\ error' = "ValueError"
               /\ pc' = "raised"
               /\ UNCHANGED <<self_solid_compat, chemsys, pbx_entries>>
          ELSE /\ self_solid_compat' = c
               /\ pbx_entries' = <<>>
               /\ chemsys' = IF chemsys.isstr
                             THEN [isstr |-> FALSE, v |-> Split(chemsys.v)]
                             ELSE chemsys
               /\ pc' = "request"
               /\ UNCHANGED error
    /\ UNCHANGED <<fn, pageVars, solid_compat, additional_entries, mp_ion_data,
                   mp_entries, url, ion_data>>

\* url = "/pourbaix_diagram/reference_data/" + ...
UrlPrefix == <<"/pourbaix_diagram/reference_data/">>

\* Lines 58-59: request the ion reference data of the chemical system.
PbxRequest ==
    /\ fn = "get_pourbaix_entries_w_add_entries"
    /\ pc = "request"
    /\ url' = UrlPrefix \o Join(chemsys.v)
    /\ ion_data' = mp_ion_data
    /\ pc' = "ref_elts"
    /\ UNCHANGED <<fn, error, pageVars, solid_compat, self_solid_compat, chemsys,
                   additional_entries, mp_ion_data, mp_entries, pbx_entries>>

\* Lines 60-63: ion_ref_comps, then itertools.chain.from_iterable(...): the
\* lookup of the global itertools.
PbxRefElts ==
    /\ fn = "get_pourbaix_entries_w_add_entries"
    /\ pc = "ref_elts"
    /\ IF Bound("itertools")
       THEN /\ pc' = "entries"
            /\ UNCHANGED error
       ELSE /\ error' = "NameError"
            /\ pc' = "raised"
    /\ UNCHANGED <<fn, pageVars, pbxVars>>

\* ---------------------------------------------------------------------
\* Lines 64-134, which run only after the lookups of itertools, warnings,
\* Element and ComputedEntry succeed.  Written as operators on the data the
\* lines read: ion_data, the processed ion_ref_entries, chemsys and
\* additional_entries.
\* ---------------------------------------------------------------------

\* ion_ref_elts: the elements of every record's reference solid
IonRefElts(data) == UNION {EltsOf(data[n].ReferenceSolid) : n \in 1..Len(data)}

\* refs: the entries whose reduced formula is the record's reference solid
IsRef(e, i_d) == ReducedFormula(e.composition) = i_d.ReferenceSolid

Refs(i_d, entries) == SelectSeq(entries, LAMBDA e : IsRef(e, i_d))

\* sorted(refs, key=e_above_hull)[0]: sorted is stable, so the earliest of the
\* entries of least e_above_hull
StableRef(refs) ==
    LET i == CHOOSE i \in 1..Len(refs) :
                 /\ \A j \in 1..Len(refs) : refs[i].e_above_hull <= refs[j].e_above_hull
                 /\ \A j \in 1..(i - 1) : refs[j].e_above_hull > refs[i].e_above_hull
    IN refs[i]

\* solid_diff = get_form_energy(stable_ref) - i_d["Reference solid energy"] * rf
SolidDiff(i_d, stable_ref) ==
    stable_ref.form_e - i_d.ReferenceSolidEnergy * ReductionFactor(stable_ref.composition)

Abs(x) == IF x < 0 THEN 0 - x ELSE x

\* The exact quotient n / d, d > 0, in lowest terms.
Ratio(n, d) == LET g == Gcd(Abs(n), d) IN <<n \div g, d \div g>>

\* energy = i_d["Energy"] + solid_diff * correction_factor, where
\* correction_factor = ion.composition[elt] / stable_ref.composition[elt];
\* "ZeroDivisionError" when the reference holds none of elt.
IonEnergy(i_d, stable_ref) ==
    LET elt == i_d.Major_Elements[1]
        num == Amount(i_d.Name, elt)
        den == Amount(stable_ref.composition, elt)
    IN IF den = 0 THEN "ZeroDivisionError"
       ELSE Ratio(i_d.Energy * den + SolidDiff(i_d, stable_ref) * num, den)

\* Every record of the data has a reference entry (else ValueError, line 97).
AllRefsPresent(data, entries) ==
    \A n \in 1..Len(data) :
        /\ Refs(data[n], entries) # <<>>
        /\ Amount(StableRef(Refs(data[n], entries)).composition,
                  data[n].Major_Elements[1]) > 0

\* The ion entries appended by the loop of lines 89-109.
IonPbxEntries(data, entries) ==
    [n \in 1..Len(data) |->
        [phase_type |-> "Ion", composition |-> data[n].Name,
         energy |-> IonEnergy(data[n], StableRef(Refs(data[n], entries))),
         entry_id |-> <<"ion", n - 1>>]]

\* Element(s) for a symbol held as a sequence of characters
ElementOf(sym) == IF Len(sym) = 1 THEN sym[1] ELSE "invalid"

\* extra_elts = set(ion_ref_elts) - {Element(s) for s in chemsys} - {H, O}
ExtraElts(data, syms) ==
    (IonRefElts(data) \ {ElementOf(syms[i]) : i \in 1..Len(syms)}) \ {"H", "O"}

\* not (entry_elts <= {H, O} or extra_elts.intersection(entry_elts))
KeepSolid(entry, extra) ==
    ~(EltsOf(entry.composition) \subseteq {"H", "O"}
      \/ (extra \cap EltsOf(entry.composition)) # {})

\* The solid entries appended by the loop of lines 118-132 over
\* [*ion_ref_entries, *additional_entries].
SolidPbxEntries(data, entries, additional, syms) ==
    LET all == entries \o additional
        kept == SelectSeq(all, LAMBDA e : KeepSolid(e, ExtraElts(data, syms)))
    IN [i \in 1..Len(kept) |->
           [phase_type |-> "Solid", composition |-> kept[i].composition,
            energy |-> <<kept[i].form_e, 1>>, entry_id |-> kept[i].entry_id]]

\* =====================================================================
\* The calls explored
\* =====================================================================

\* Entries the Materials Project holds (after compat.process_entries); form_e
\* is what ion_ref_pd.get_form_energy gives for the entry.
EntK == [entry_id |-> "mp-1", composition |-> Comp(0, 0, 1, 0), e_above_hull |-> 0, form_e |-> 0]
EntKO == [entry_id |-> "mp-2", composition |-> Comp(0, 1, 1, 0), e_above_hull |-> 3, form_e |-> -12]
EntK2O2 == [entry_id |-> "mp-3", composition |-> Comp(0, 2, 2, 0), e_above_hull |-> 0, form_e |-> -30]
EntH2O == [entry_id |-> "mp-4", composition |-> Comp(2, 1, 0, 0), e_above_hull |-> 0, form_e |-> -20]
EntKS == [entry_id |-> "mp-5", composition |-> Comp(0, 0, 1, 1), e_above_hull |-> 0, form_e |-> -8]
EntSO2 == [entry_id |-> "mp-6", composition |-> Comp(0, 2, 0, 1), e_above_hull |-> 0, form_e |-> -9]

EntryChoices == {<<EntK, EntKO, EntK2O2, EntH2O>>,
                 <<EntK2O2, EntKO, EntKS, EntSO2, EntH2O>>,
                 <<EntK, EntH2O>>}

\* Entries a caller adds.
AddKO2 == [entry_id |-> "ocp-1", composition |-> Comp(0, 2, 1, 0), e_above_hull |-> 1, form_e |-> -14]
AddK2S == [entry_id |-> "ocp-2", composition |-> Comp(0, 0, 2, 1), e_above_hull |-> 0, form_e |-> -10]
AddHO == [entry_id |-> "ocp-3", composition |-> Comp(1, 1, 0, 0), e_above_hull |-> 2, form_e |-> -5]

AdditionalChoices == {<<>>, <<AddKO2>>, <<AddKO2, AddK2S, AddHO>>}

\* Ion reference records.
IonK == [Name |-> Comp(0, 0, 1, 0), ReferenceSolid |-> Comp(0, 1, 1, 0),
         ReferenceSolidEnergy |-> -14, Energy |-> -28, Major_Elements |-> <<"K">>]
IonSO4 == [Name |-> Comp(0, 4, 0, 1), ReferenceSolid |-> Comp(0, 2, 0, 1),
           ReferenceSolidEnergy |-> -9, Energy |-> -74, Major_Elements |-> <<"S">>]

IonDataChoices == {<<>>, <<IonK>>, <<IonK, IonSO4>>}

\* chemsys as a string ("K", "K-S") or as a list (["K", "S"])
ChemsysArgs == {[isstr |-> TRUE, v |-> <<"K">>],
                [isstr |-> TRUE, v |-> <<"K", "-", "S">>],
                [isstr |-> FALSE, v |-> << <<"K">>, <<"S">> >>]}

NotCalledPage ==
    /\ maximum_pages = Inf
    /\ page_limit = 1
    /\ oqmd = <<>>
    /\ continue_bool = TRUE
    /\ batch_num = 0
    /\ cumulative_data = <<>>
    /\ requests = <<>>
    /\ returned = <<>>

NotCalledPbx ==
    /\ solid_compat = "None"
    /\ self_solid_compat = "unset"
    /\ chemsys = [isstr |-> FALSE, v |-> <<>>]
    /\ additional_entries = <<>>
    /\ mp_ion_data = <<>>
    /\ mp_entries = <<>>
    /\ url = <<>>
    /\ ion_data = <<>>
    /\ pbx_entries = <<>>

\* A call of get_all_entries or get_icsd_entries: lines 21-23 and 49-51 done.
InitPage ==
    /\ fn \in {"get_all_entries", "get_icsd_entries"}
    /\ pc = IF fn = "get_all_entries" THEN "loop" ELSE "query"
    /\ error = "none"
    /\ maximum_pages \in (1..MaxPages) \cup {Inf}
    /\ page_limit \in 1..MaxPageLimit
    /\ oqmd \in {[i \in 1..n |-> i] : n \in 0..MaxEntries}
    /\ continue_bool = TRUE
    /\ batch_num = 0
    /\ cumulative_data = <<>>
    /\ requests = <<>>
    /\ returned = <<>>
    /\ NotCalledPbx

\* A call of get_pourbaix_entries_w_add_entries.
InitPbx ==
    /\ fn = "get_pourbaix_entries_w_add_entries"
    /\ pc = "validate"
    /\ error = "none"
    /\ solid_compat \in CompatArgs
    /\ self_solid_compat = "unset"
    /\ chemsys \in ChemsysArgs
    /\ additional_entries \in AdditionalChoices
    /\ mp_ion_data \in IonDataChoices
    /\ mp_entries \in EntryChoices
    /\ url = <<>>
    /\ ion_data = <<>>
    /\ pbx_entries = <<>>
    /\ NotCalledPage

Init == InitPage \/ InitPbx

Next ==
    \/ AllEntriesQuery
    \/ AllEntriesReturn
    \/ IcsdQuery
    \/ IcsdReturn
    \/ PbxValidate
    \/ PbxRequest
    \/ PbxRefElts

Spec == Init /\ [][Next]_vars

\* =====================================================================
\* Properties
\* =====================================================================

RECURSIVE ConcatPages(_, _)
\* The data of the pages answered to the first k requests, in order.
ConcatPages(reqs, k) ==
    IF k = 0 THEN <<>>
    ELSE ConcatPages(reqs, k - 1) \o ServerPage(oqmd, reqs[k]).data

\* C1: get_all_entries with maximum_pages = infinity returns every entry of
\* the server exactly once and in order: its k-th request (k = 0, 1, ...) has
\* limit = page_limit and offset = k * page_limit, every page but the last
\* has a next link, the last has none, and the returned list is the
\* concatenation of the pages' data, which is the whole data set.
C1_AllEntriesComplete ==
    (fn = "get_all_entries" /\ maximum_pages = Inf /\ pc = "done") =>
        /\ Len(requests) >= 1
        /\ \A k \in 1..Len(requests) :
               /\ requests[k] = [limit |-> page_limit, offset |-> (k - 1) * page_limit]
               /\ ServerPage(oqmd, requests[k]).next <=> k < Len(requests)
        /\ returned = ConcatPages(requests, Len(requests))
        /\ returned = oqmd

\* A default call that needed at least three pages, the last one partial.
C1_Witness ==
    /\ fn = "get_all_entries"
    /\ maximum_pages = Inf
    /\ pc = "done"
    /\ Len(requests) >= 3
    /\ Len(oqmd) % page_limit # 0
    /\ returned = oqmd

\* C2: with a finite maximum_pages >= 1, get_all_entries issues at most
\* maximum_pages requests and returns the entries of at most maximum_pages
\* pages.
C2_AtMostMaximumPages ==
    (fn = "get_all_entries" /\ maximum_pages # Inf) =>
        /\ Len(requests) <= maximum_pages
        /\ pc = "done" => Len(returned) <= maximum_pages * page_limit

\* C3: get_icsd_entries with maximum_pages = infinity returns the entries of
\* every page of a result that spans several pages.
C3_IcsdAllPages ==
    (fn = "get_icsd_entries" /\ maximum_pages = Inf /\ pc = "done") =>
        returned = oqmd

\* C4: solid_compat given as a Compatibility class, as a Compatibility
\* instance or as None does not raise ValueError: the call goes on to request
\* the ion reference data, and None sets no solid compatibility scheme.
C4_ClassInstanceNoneAccepted ==
    (/\ fn = "get_pourbaix_entries_w_add_entries"
     /\ solid_compat \in {"class MaterialsProject2020Compatibility",
                          "instance of Compatibility", "None"}
     /\ pc = "raised") =>
        /\ error # "ValueError"
        /\ url # <<>>
        /\ solid_compat = "None" => self_solid_compat = "None"

\* The call had arguments the function accepts and reference data it can
\* resolve: no ValueError of lines 46 and 97, no division by zero.
PbxCallValid ==
    /\ fn = "get_pourbaix_entries_w_add_entries"
    /\ ChooseSolidCompat(solid_compat) # "ValueError"
    /\ AllRefsPresent(mp_ion_data, mp_entries)

\* C5: a call with valid arguments and additional entries ends without an
\* exception, and the solid part of its result is one entry for each of the
\* processed reference entries followed by additional_entries that passes the
\* filter, in order.
C5_AdditionalEntriesCarried ==
    (PbxCallValid /\ additional_entries # <<>> /\ pc = "raised") =>
        /\ error = "none"
        /\ SelectSeq(pbx_entries, LAMBDA e : e.phase_type = "Solid")
             = SolidPbxEntries(mp_ion_data, mp_entries, additional_entries, chemsys.v)

\* C6: a call with valid arguments ends without an exception and its result
\* holds, for every ion record, an ion entry of energy
\* Energy + (form_energy(ref) - reference solid energy * rf) * (ion amount /
\* reference amount), ref being the earliest matching entry of least
\* e_above_hull.
C6_IonEnergiesPositioned ==
    (PbxCallValid /\ mp_ion_data # <<>> /\ pc = "raised") =>
        /\ error = "none"
        /\ SelectSeq(pbx_entries, LAMBDA e : e.phase_type = "Ion")
             = IonPbxEntries(mp_ion_data, mp_entries)

====
